---- MODULE Spec2Model ----
(***************************************************************************)
(* Model of the service worker src/sw.js: the install and activate         *)
(* lifecycle listeners, the two fetch listeners (the cache/network router   *)
(* and the update notifier), the message, sync, push and notificationclick  *)
(* listeners, and the classifier shouldNotCache.                            *)
(*                                                                         *)
(* Strings are sequences of atoms (substrings that never overlap), so that  *)
(* endsWith, includes, === and URL parsing are computed, not assumed:       *)
(*   "https://maid.example/index.html" is <<Origin, "/", "index.html">>.    *)
(***************************************************************************)
EXTENDS Naturals, Sequences, FiniteSets, Bags, TLC

VARIABLES
    caches,          \* CacheStorage: sequence (creation order) of [name, entries]
    lifecycle,       \* state of the newest worker
    activeWorker,    \* TRUE while a worker of the scope (an earlier version
                     \* or this one) is active and controls pages
    skipWaitingFlag, \* the newest worker's skip-waiting flag
    installs,        \* number of install events dispatched so far
    ipc,             \* position of the install listener's promise chain
    installError,    \* the error given to console.error by the install listener
    apc,             \* position of the activate listener's promise chain
    delStatus,       \* activation: stale store name -> state of its caches.delete
    claimCalled,     \* clients.claim() was called by the current activation
    events,          \* bag of fetch events being handled
    dispatched,      \* number of fetch events dispatched so far
    hostEvent,       \* the message, sync, push or notificationclick event
                     \* whose listener has run, until its handling is over
    runs,            \* repeated activation: what each earlier run left
    cpath,           \* classifier check: the pathname given to shouldNotCache
    cresult          \* classifier check: what shouldNotCache returned

vars == <<caches, lifecycle, activeWorker, skipWaitingFlag, installs, ipc,
          installError, apc, delStatus, claimCalled, events, dispatched,
          hostEvent, runs, cpath, cresult>>

lifeVars == <<lifecycle, activeWorker, skipWaitingFlag, installs, ipc,
              installError, apc, delStatus, claimCalled>>
classVars == <<cpath, cresult>>

(***************************************************************************)
(* Bounds                                                                  *)
(***************************************************************************)
MaxInstalls == 1     \* install events per behaviour
MaxFetches == 1      \* fetch events per behaviour
MaxPathLen == 3      \* atoms in a pathname given to the classifier check
MaxRuns == 2         \* runs of the activate listener in a repeated activation
MaxRacers == 2       \* concurrent fetch events for one resource

(***************************************************************************)
(* Program constants                                                       *)
(***************************************************************************)
CACHE_NAME == "one-day-maid-v1"
STATIC_CACHE_NAME == "one-day-maid-static-v1"

STATIC_FILES ==
    << <<"/">>,
       <<"/", "index.html">>,
       <<"/", "styles.css">>,
       <<"/", "script.js">>,
       <<"/", "manifest.json">> >>

NO_CACHE_FILES ==
    << <<"/", "index.html">>,
       <<"/", "script.js">>,
       <<"/", "styles.css">> >>

\* location.origin of the worker
Origin == "https://maid.example"
OtherOrigin == "https://cdn.example"

(***************************************************************************)
(* Strings                                                                 *)
(***************************************************************************)
Range(s) == {s[i] : i \in 1..Len(s)}

\* String.prototype.endsWith
EndsWith(s, t) ==
    /\ Len(t) <= Len(s)
    /\ SubSeq(s, Len(s) - Len(t) + 1, Len(s)) = t

\* String.prototype.includes
Includes(s, t) ==
    \E i \in 1..(Len(s) + 1) : /\ i + Len(t) - 1 <= Len(s)
                               /\ SubSeq(s, i, i + Len(t) - 1) = t

\* new URL(request.url): origin and pathname of an absolute URL
UrlOrigin(url) == url[1]
UrlPathname(url) == SubSeq(url, 2, Len(url))

\* a path resolved against the worker's own origin (cache.addAll, fetch)
Resolve(path) == <<Origin>> \o path

(***************************************************************************)
(* Request Classifier                                                      *)
(***************************************************************************)
\* Mutant: exact match only.
shouldNotCache_ExactOnly(pathname) ==
    \E i \in 1..Len(NO_CACHE_FILES) : pathname = NO_CACHE_FILES[i]

shouldNotCache(pathname) ==
    \E i \in 1..Len(NO_CACHE_FILES) :
        EndsWith(pathname, NO_CACHE_FILES[i]) \/ pathname = NO_CACHE_FILES[i]

(***************************************************************************)
(* Responses and the network                                               *)
(***************************************************************************)
Bodies == {"v1", "v2"}
Resp200(b) == [status |-> 200, type |-> "basic", body |-> b]
Resp404 == [status |-> 404, type |-> "basic", body |-> "notfound"]
RespRedirect == [status |-> 0, type |-> "opaqueredirect", body |-> "none"]
\* a 200 response that is not of type 'basic' (the request was redirected to
\* another origin)
RespCors == [status |-> 200, type |-> "cors", body |-> "v1"]
NetResponses ==
    {Resp200(b) : b \in Bodies} \cup {Resp404, RespRedirect, RespCors}

\* a rejected promise / a failed request; and "nothing yet"
Failed == [error |-> "rejected"]
None == [pending |-> TRUE]
\* caches.match resolved with undefined
Undefined == [undefined |-> TRUE]
IsResponse(r) == "status" \in DOMAIN r
NetOutcomes == NetResponses \cup {Failed}

(***************************************************************************)
(* CacheStorage                                                            *)
(***************************************************************************)
StaleNames == {"old-cache-v0", "maid-cache-v0"}
NoEntries == << >>

\* caches.keys(), as a set
CacheNames(cs) == {cs[i].name : i \in 1..Len(cs)}
CacheHas(cs, name) == name \in CacheNames(cs)

\* caches.open(name): creates the store when absent
CachesOpen(cs, name) ==
    IF CacheHas(cs, name) THEN cs
    ELSE Append(cs, [name |-> name, entries |-> NoEntries])

\* Mutant: an entry already stored for the request is kept.
CachePut_KeepFirst(cs, name, url, resp) ==
    [i \in 1..Len(cs) |->
        IF cs[i].name = name
        THEN [cs[i] EXCEPT !.entries = cs[i].entries @@ (url :> resp)]
        ELSE cs[i]]

\* cache.put(request, response) on the store called name
CachePut(cs, name, url, resp) ==
    [i \in 1..Len(cs) |->
        IF cs[i].name = name
        THEN [cs[i] EXCEPT !.entries = (url :> resp) @@ cs[i].entries]
        ELSE cs[i]]

\* caches.delete(name)
CachesDelete(cs, name) == SelectSeq(cs, LAMBDA c : c.name # name)

\* caches.match(request): a request whose method is not GET matches no
\* entry; a GET request matches the entry of the first store, in creation
\* order, that holds its URL
CachesMatch(cs, req) ==
    LET hits == {i \in 1..Len(cs) : req.url \in DOMAIN cs[i].entries}
    IN IF req.method # "GET" \/ hits = {} THEN Undefined
       ELSE cs[CHOOSE i \in hits : \A j \in hits : i <= j].entries[req.url]

(***************************************************************************)
(* Fetch events being handled                                              *)
(***************************************************************************)
Handling == BagToSet(events)

\* Every chain of the event has ended.
Finished(h) == h.rpc \in {"pass", "done"} /\ h.npc \in {"skip", "done"}

\* The context of a finished event is discarded before anything else happens:
\* discarding changes nothing that any other step reads, so every step below
\* waits for it.
NoneFinished == \A h \in Handling : ~Finished(h)

\* no message, sync, push or notificationclick event is being handled
NoEvent == [kind |-> "none"]

(***************************************************************************)
(* Initial state: this worker is not installed; an earlier version may be   *)
(* active, and CacheStorage holds whatever stores earlier versions of the   *)
(* application left behind.                                                  *)
(***************************************************************************)
OldStore(name) ==
    [name |-> name,
     entries |-> IF name = "old-cache-v0"
                 THEN (Resolve(<<"/", "index.html">>) :> Resp200("v1"))
                      @@ (Resolve(<<"/", "icon-192.png">>) :> Resp200("v1"))
                 ELSE NoEntries]

InitialCaches ==
    { << >>,
      << OldStore("old-cache-v0"), OldStore("maid-cache-v0") >> }

Init ==
    /\ caches \in InitialCaches
    /\ lifecycle = "UNINSTALLED"
    /\ activeWorker \in BOOLEAN
    /\ skipWaitingFlag = FALSE
    /\ installs = 0
    /\ ipc = "idle"
    /\ installError = "none"
    /\ apc = "idle"
    /\ delStatus = << >>
    /\ claimCalled = FALSE
    /\ events = EmptyBag
    /\ dispatched = 0
    /\ hostEvent = NoEvent
    /\ runs = << >>
    /\ cpath = << >>
    /\ cresult = None

(***************************************************************************)
(* Install listener (sw.js 21-37)                                          *)
(***************************************************************************)
\* The host dispatches the install event of a new worker; the listener starts
\* caches.open(STATIC_CACHE_NAME) and hands the chain to event.waitUntil.
HostInstall ==
    /\ NoneFinished
    /\ hostEvent = NoEvent
    /\ lifecycle \in {"UNINSTALLED", "ACTIVE"}
    /\ ipc = "idle"
    /\ installs < MaxInstalls
    /\ installs' = installs + 1
    /\ lifecycle' = "INSTALLING"
    /\ skipWaitingFlag' = FALSE
    /\ ipc' = "open"
    /\ installError' = "none"
    /\ UNCHANGED <<caches, activeWorker, apc, delStatus, claimCalled,
                   events, dispatched, classVars, hostEvent, runs>>

\* .catch(error => console.error(...)): the handler logs and returns
\* undefined, so the chain given to waitUntil is fulfilled.
InstallCatch(error) ==
    /\ installError' = error
    /\ ipc' = "fulfilled"

\* caches.open(STATIC_CACHE_NAME) settles.
InstallOpenSettle ==
    /\ NoneFinished
    /\ hostEvent = NoEvent
    /\ ipc = "open"
    /\ \E ok \in BOOLEAN :
          IF ok
          THEN /\ caches' = CachesOpen(caches, STATIC_CACHE_NAME)
               /\ ipc' = "addAll"
               /\ installError' = installError
          ELSE /\ caches' = caches
               /\ InstallCatch("open")
    /\ UNCHANGED <<installs, lifecycle, activeWorker, skipWaitingFlag, apc,
                   delStatus, claimCalled, events, dispatched, classVars, hostEvent, runs>>

\* cache.addAll(STATIC_FILES): every file is fetched, and only when all the
\* fetches succeeded are the entries written (all or nothing).
RECURSIVE AddAll(_, _, _, _)
AddAll(cs, name, files, resp) ==
    IF files = << >> THEN cs
    ELSE AddAll(CachePut(cs, name, Resolve(Head(files)), resp), name,
                Tail(files), resp)

\* Mutant: the last file of the list is not stored.
InstallAddAll_DropLast(cs, resp) ==
    AddAll(cs, STATIC_CACHE_NAME, SubSeq(STATIC_FILES, 1, Len(STATIC_FILES) - 1),
           resp)

InstallAddAll(cs, resp) == AddAll(cs, STATIC_CACHE_NAME, STATIC_FILES, resp)

\* the .then(() => self.skipWaiting()) callback runs only when addAll fulfilled
InstallThen(unfetchable) == unfetchable = {}

\* cache.addAll settles: unfetchable is the set of files whose fetch failed.
InstallAddAllSettle ==
    /\ NoneFinished
    /\ hostEvent = NoEvent
    /\ ipc = "addAll"
    /\ \E unfetchable \in SUBSET Range(STATIC_FILES), b \in Bodies :
          /\ caches' = IF unfetchable = {}
                       THEN InstallAddAll(caches, Resp200(b))
                       ELSE caches
          /\ IF InstallThen(unfetchable)
             THEN /\ skipWaitingFlag' = TRUE
                  /\ ipc' = "skipWaiting"
                  /\ installError' = installError
             ELSE /\ skipWaitingFlag' = skipWaitingFlag
                  /\ InstallCatch("addAll")
    /\ UNCHANGED <<installs, lifecycle, activeWorker, apc, delStatus,
                   claimCalled, events, dispatched, classVars, hostEvent, runs>>

\* the promise of self.skipWaiting() resolves
InstallSkipWaitingSettle ==
    /\ NoneFinished
    /\ hostEvent = NoEvent
    /\ ipc = "skipWaiting"
    /\ ipc' = "fulfilled"
    /\ UNCHANGED <<installs, installError, caches, lifecycle, activeWorker,
                   skipWaitingFlag, apc, delStatus, claimCalled, events,
                   dispatched, classVars, hostEvent, runs>>

\* The host sees the promise given to event.waitUntil settle: fulfilled makes
\* the worker installed (waiting), rejected discards it.
HostInstallSettled ==
    /\ NoneFinished
    /\ hostEvent = NoEvent
    /\ lifecycle = "INSTALLING"
    /\ ipc \in {"fulfilled", "rejected"}
    /\ lifecycle' = IF ipc = "fulfilled"
                    THEN "INSTALLED"
                    ELSE IF activeWorker THEN "ACTIVE" ELSE "UNINSTALLED"
    /\ ipc' = "idle"
    /\ UNCHANGED <<installs, installError, caches, activeWorker, skipWaitingFlag, apc,
                   delStatus, claimCalled, events, dispatched, classVars, hostEvent, runs>>

(***************************************************************************)
(* Activate listener (sw.js 40-58)                                         *)
(***************************************************************************)
\* The pages the active worker controls are closed while the installed
\* worker waits for them: it has no other instance left to wait for.
HostRelease ==
    /\ NoneFinished
    /\ hostEvent = NoEvent
    /\ lifecycle = "INSTALLED"
    /\ activeWorker
    /\ ~skipWaitingFlag
    /\ activeWorker' = FALSE
    /\ UNCHANGED <<installs, installError, caches, lifecycle, skipWaitingFlag,
                   ipc, apc, delStatus, claimCalled, events, dispatched,
                   classVars, hostEvent, runs>>

\* What self.skipWaiting() is for: a waiting worker is activated when its
\* skip-waiting flag is set or when no active worker controls a page.
MayActivate(flag, active) == flag \/ ~active

\* The host activates the waiting worker and dispatches the activate event;
\* the listener starts caches.keys().
HostActivate ==
    /\ NoneFinished
    /\ hostEvent = NoEvent
    /\ lifecycle = "INSTALLED"
    /\ apc = "idle"
    /\ \A n \in DOMAIN delStatus : delStatus[n] # "pending"
    /\ MayActivate(skipWaitingFlag, activeWorker)
    /\ lifecycle' = "ACTIVATING"
    /\ apc' = "keys"
    /\ delStatus' = << >>
    /\ claimCalled' = FALSE
    /\ UNCHANGED <<installs, installError, caches, activeWorker, skipWaitingFlag, ipc,
                   events, dispatched, classVars, hostEvent, runs>>

\* Mutant: the generic store is not recognised as current.
ShouldDelete_GenericToo(cacheName) == cacheName # STATIC_CACHE_NAME

\* cacheName !== CACHE_NAME && cacheName !== STATIC_CACHE_NAME
ShouldDelete(cacheName) ==
    cacheName # CACHE_NAME /\ cacheName # STATIC_CACHE_NAME

\* Promise.all over the deletions: rejected as soon as one is rejected,
\* fulfilled when all are fulfilled.
PromiseAll(status) ==
    IF \E n \in DOMAIN status : status[n] = "rejected" THEN "rejected"
    ELSE IF \A n \in DOMAIN status : status[n] = "fulfilled" THEN "fulfilled"
    ELSE "pending"

\* Mutant: the callback runs as soon as one deletion is fulfilled.
ActivateThen_Early(status) == \E n \in DOMAIN status : status[n] = "fulfilled"

\* the .then(() => self.clients.claim()) callback runs when Promise.all fulfilled
ActivateThen(status) == PromiseAll(status) = "fulfilled"

\* Continuation of the chain after the deletions' states became status.
ActivateChain(status) ==
    IF ActivateThen(status)
    THEN /\ claimCalled' = TRUE
         /\ apc' = "claim"
    ELSE /\ claimCalled' = claimCalled
         /\ apc' = IF PromiseAll(status) = "rejected" THEN "rejected"
                   ELSE "deleting"

\* caches.keys() resolves: caches.delete is started for every stale name.
ActivateKeysSettle ==
    /\ NoneFinished
    /\ hostEvent = NoEvent
    /\ apc = "keys"
    /\ LET stale == {n \in CacheNames(caches) : ShouldDelete(n)}
           status == [n \in stale |-> "pending"]
       IN /\ delStatus' = status
          /\ ActivateChain(status)
    /\ UNCHANGED <<installs, installError, caches, lifecycle, activeWorker,
                   skipWaitingFlag, ipc, events, dispatched, classVars, hostEvent, runs>>

\* the deletions of status that have not settled yet
StillPending(status) ==
    LET names == {n \in DOMAIN status : status[n] = "pending"}
    IN [n \in names |-> "pending"]

\* One caches.delete(cacheName) settles; a deletion can fail. A deletion that
\* settles after the activation has ended is of no further interest.
ActivateDeleteSettle ==
    \E n \in DOMAIN delStatus, ok \in BOOLEAN :
        /\ NoneFinished
        /\ hostEvent = NoEvent
        /\ delStatus[n] = "pending"
        /\ LET status == [delStatus EXCEPT
                             ![n] = IF ok THEN "fulfilled" ELSE "rejected"]
           IN /\ delStatus' = IF apc = "idle" THEN StillPending(status)
                             ELSE status
              /\ caches' = IF ok THEN CachesDelete(caches, n) ELSE caches
              /\ IF apc = "deleting"
                 THEN ActivateChain(status)
                 ELSE UNCHANGED <<apc, claimCalled>>
        /\ UNCHANGED <<installs, installError, lifecycle, activeWorker, skipWaitingFlag, ipc,
                       events, dispatched, classVars, hostEvent, runs>>

\* the promise of self.clients.claim() resolves
ActivateClaimSettle ==
    /\ NoneFinished
    /\ hostEvent = NoEvent
    /\ apc = "claim"
    /\ apc' = "fulfilled"
    /\ UNCHANGED <<installs, installError, caches, lifecycle, activeWorker,
                   skipWaitingFlag, ipc, delStatus, claimCalled, events,
                   dispatched, classVars, hostEvent, runs>>

\* The host sees the promise given to event.waitUntil settle; the worker
\* becomes activated whether it was fulfilled or rejected.
HostActivated ==
    /\ NoneFinished
    /\ hostEvent = NoEvent
    /\ lifecycle = "ACTIVATING"
    /\ apc \in {"fulfilled", "rejected"}
    /\ lifecycle' = "ACTIVE"
    /\ activeWorker' = TRUE
    /\ apc' = "idle"
    /\ delStatus' = StillPending(delStatus)
    /\ UNCHANGED <<installs, installError, caches, skipWaitingFlag, ipc, claimCalled,
                   events, dispatched, classVars, hostEvent, runs>>

(***************************************************************************)
(* Fetch events: the requests the host can hand to the worker              *)
(***************************************************************************)
Req(method, origin, path) == [method |-> method, url |-> <<origin>> \o path]

Requests ==
    { Req("GET", Origin, <<"/">>),
      Req("GET", Origin, <<"/", "index.html">>),
      Req("GET", Origin, <<"/", "styles.css">>),
      Req("GET", Origin, <<"/", "icon-192.png">>),
      Req("POST", Origin, <<"/">>),
      Req("POST", Origin, <<"/", "index.html">>),
      Req("POST", Origin, <<"/", "icon-192.png">>),
      Req("GET", OtherOrigin, <<"/", "index.html">>) }

\* the application instances the worker can post messages to
Clients == {"page-1", "page-2"}

\* request.method !== 'GET', url.origin !== location.origin (sw.js 66-73)
RouterSkips(req) ==
    \/ req.method # "GET"
    \/ UrlOrigin(req.url) # Origin

\* Mutant: every request the router handles takes the network-first branch.
RouterStart_FetchFirst(req) == IF RouterSkips(req) THEN "pass" ELSE "fetch"

\* Where the router listener (sw.js 61-120) leaves its chain when it returns.
RouterStart(req) ==
    IF RouterSkips(req) THEN "pass"
    ELSE IF shouldNotCache(UrlPathname(req.url)) THEN "fetch"
    ELSE "match"

\* event.request.url.includes('index.html') ||
\* event.request.url === location.origin + '/'   (sw.js 190)
NotifierTriggers(req) ==
    \/ Includes(req.url, <<"index.html">>)
    \/ req.url = <<Origin>> \o <<"/">>

\* The two listeners are invoked in registration order, the router first.
\* event.respondWith stops the propagation of the event, so the notifier
\* listener is invoked only for an event the router returned from without
\* responding (sw.js 67, 72).
NotifierInvoked(req) == RouterStart(req) = "pass"

\* Where the notifier listener (sw.js 188-209) leaves its chain: fetch is
\* started when it is invoked and its test holds.
NotifierStart(req) ==
    IF NotifierInvoked(req) /\ NotifierTriggers(req) THEN "fetch" ELSE "skip"

\* The state of the event when the listeners have returned.
NewEvent(req) ==
    [req |-> req,
     rpc |-> RouterStart(req),
     npc |-> NotifierStart(req),
     responder |-> IF RouterStart(req) # "pass" THEN "router"
                   ELSE IF NotifierStart(req) = "fetch" THEN "notifier"
                   ELSE "none",
     result |-> None,
     rnet |-> None,
     rhit |-> None,
     nfetch |-> IF NotifierStart(req) = "fetch" THEN "pending" ELSE "none",
     write |-> "none",
     posted |-> {}]

Replace(h, h2) == (events (-) SetToBag({h})) (+) SetToBag({h2})

\* A fetch event goes to the active worker. Dispatching reads and writes no
\* store, so an event dispatched while a newer version installs behaves as
\* one dispatched just before that install began.
FetchDispatch ==
    /\ NoneFinished
    /\ hostEvent = NoEvent
    /\ activeWorker
    /\ lifecycle = "ACTIVE"
    /\ dispatched < MaxFetches
    /\ \E req \in Requests :
          events' = events (+) SetToBag({NewEvent(req)})
    /\ dispatched' = dispatched + 1
    /\ UNCHANGED <<caches, lifeVars, classVars, hostEvent, runs>>

(***************************************************************************)
(* Router, network-first branch (sw.js 76-89)                              *)
(***************************************************************************)
\* Mutant: the fresh response is also stored in the generic store.
NetworkFirstCaches_Store(cs, url, out) ==
    IF IsResponse(out)
    THEN CachePut(CachesOpen(cs, CACHE_NAME), CACHE_NAME, url, out)
    ELSE cs

\* .then(response => response): nothing is written
NetworkFirstCaches(cs, url, out) == cs

\* fetch(request) settles with out.
NetworkFirstSettle ==
    \E h \in Handling, out \in NetOutcomes :
        /\ NoneFinished
        /\ hostEvent = NoEvent
        /\ h.rpc = "fetch"
        /\ events' = Replace(h,
              IF IsResponse(out)
              THEN [h EXCEPT !.rnet = out, !.result = out, !.rpc = "done"]
              ELSE [h EXCEPT !.rnet = out, !.rpc = "fallback"])
        /\ caches' = NetworkFirstCaches(caches, h.req.url, out)
        /\ UNCHANGED <<lifeVars, dispatched, classVars, hostEvent, runs>>

\* Mutant: an undefined value handed to respondWith reaches the page as it is.
Responded_AsIs(m) == m

\* What the page gets when respondWith's promise resolves with m.
Responded(m) == IF m = Undefined THEN Failed ELSE m

\* Mutant: the fallback fabricates a response when nothing is cached.
NetworkFirstFallbackResult_Fabricate(cs, req) ==
    IF CachesMatch(cs, req) = Undefined THEN Resp200("v1")
    ELSE CachesMatch(cs, req)

\* .catch(() => caches.match(request))
NetworkFirstFallbackResult(cs, req) == Responded(CachesMatch(cs, req))

\* caches.match(request) of the fallback resolves.
NetworkFirstFallback ==
    \E h \in Handling :
        /\ NoneFinished
        /\ hostEvent = NoEvent
        /\ h.rpc = "fallback"
        /\ events' = Replace(h,
              [h EXCEPT !.rhit = CachesMatch(caches, h.req),
                        !.result = NetworkFirstFallbackResult(caches, h.req),
                        !.rpc = "done"])
        /\ UNCHANGED <<caches, lifeVars, dispatched, classVars, hostEvent, runs>>

(***************************************************************************)
(* Router, cache-first branch (sw.js 91-119)                               *)
(***************************************************************************)
\* Mutant: a cached entry is found but the network is asked all the same.
CacheFirstHit_Never(m) == FALSE

\* if (response) { return response; }
CacheFirstHit(m) == m # Undefined

\* caches.match(request) resolves: a hit is returned, a miss starts fetch.
CacheFirstMatch ==
    \E h \in Handling :
        /\ NoneFinished
        /\ hostEvent = NoEvent
        /\ h.rpc = "match"
        /\ LET m == CachesMatch(caches, h.req)
           IN events' = Replace(h,
                IF CacheFirstHit(m)
                THEN [h EXCEPT !.rhit = m, !.result = m, !.rpc = "done"]
                ELSE [h EXCEPT !.rhit = m, !.rpc = "missfetch"])
        /\ UNCHANGED <<caches, lifeVars, dispatched, classVars, hostEvent, runs>>

\* Mutant: every response is stored, whatever its status and type.
Cacheable_Any(resp) == TRUE

\* the negation of
\* !fetchResponse || fetchResponse.status !== 200 || fetchResponse.type !== 'basic'
Cacheable(resp) == ~(resp.status # 200 \/ resp.type # "basic")

\* Mutant: the response is held back while the copy is being written.
CacheFirstReturned_Withheld(out) ==
    IF IsResponse(out) /\ Cacheable(out) THEN None ELSE out

\* return fetchResponse: the .then callback returns the fetched response
\* after starting caches.open, without waiting for that chain.
CacheFirstReturned(out) == out

\* fetch(request) of a miss settles with out: a rejection goes to the page, a
\* response is returned to the page at once and, when cacheable, caches.open
\* is started for the copy.
CacheFirstFetched ==
    \E h \in Handling, out \in NetOutcomes :
        /\ NoneFinished
        /\ hostEvent = NoEvent
        /\ h.rpc = "missfetch"
        /\ events' = Replace(h,
              IF IsResponse(out) /\ Cacheable(out)
              THEN [h EXCEPT !.rnet = out, !.result = CacheFirstReturned(out),
                             !.rpc = "open"]
              ELSE [h EXCEPT !.rnet = out, !.result = CacheFirstReturned(out),
                             !.rpc = "done"])
        /\ UNCHANGED <<caches, lifeVars, dispatched, classVars, hostEvent, runs>>

\* Mutant: the copy is written to the static store.
WriteStore_Static == STATIC_CACHE_NAME

\* caches.open(CACHE_NAME)
WriteStore == CACHE_NAME

\* caches.open(CACHE_NAME) settles; then cache.put is started.
CacheFirstOpened ==
    \E h \in Handling, ok \in BOOLEAN :
        /\ NoneFinished
        /\ hostEvent = NoEvent
        /\ h.rpc = "open"
        /\ IF ok
           THEN /\ caches' = CachesOpen(caches, WriteStore)
                /\ events' = Replace(h, [h EXCEPT !.rpc = "put"])
           ELSE /\ caches' = caches
                /\ events' = Replace(h, [h EXCEPT !.rpc = "done",
                                                  !.write = "failed"])
        /\ UNCHANGED <<lifeVars, dispatched, classVars, hostEvent, runs>>

\* cache.put(request, responseToCache): keyed by the request
PutKey(req) == req.url

\* cache.put settles.
CacheFirstPut ==
    \E h \in Handling, ok \in BOOLEAN :
        /\ NoneFinished
        /\ hostEvent = NoEvent
        /\ h.rpc = "put"
        /\ IF ok
           THEN /\ caches' = CachePut(caches, WriteStore, PutKey(h.req), h.rnet)
                /\ events' = Replace(h, [h EXCEPT !.rpc = "done",
                                                  !.write = "stored"])
           ELSE /\ caches' = caches
                /\ events' = Replace(h, [h EXCEPT !.rpc = "done",
                                                  !.write = "failed"])
        /\ UNCHANGED <<lifeVars, dispatched, classVars, hostEvent, runs>>

(***************************************************************************)
(* Update notifier (sw.js 188-209)                                         *)
(***************************************************************************)
\* The notifier is the responder of every event it runs for: it runs only
\* when the router has not responded.

\* fetch(event.request) of the notifier settles with out. A response: the
\* .then callback starts clients.matchAll() and returns the response to the
\* page without waiting for it. A rejection: the .catch callback starts
\* caches.match(event.request).
NotifierSettle ==
    \E h \in Handling, out \in NetOutcomes :
        /\ NoneFinished
        /\ hostEvent = NoEvent
        /\ h.npc = "fetch"
        /\ events' = Replace(h,
              IF IsResponse(out)
              THEN [h EXCEPT !.npc = "matchAll",
                             !.nfetch = "fulfilled",
                             !.result = out]
              ELSE [h EXCEPT !.npc = "match",
                             !.nfetch = "rejected"])
        /\ UNCHANGED <<caches, lifeVars, dispatched, classVars, hostEvent, runs>>

\* clients.forEach(client => client.postMessage({type: 'UPDATE_AVAILABLE'})):
\* the clients the message is posted to
NotifierPosted(clients) == clients

\* self.clients.matchAll() resolves: every client is told of an update.
NotifierMatchAll ==
    \E h \in Handling :
        /\ NoneFinished
        /\ hostEvent = NoEvent
        /\ h.npc = "matchAll"
        /\ events' = Replace(h,
              [h EXCEPT !.npc = "done",
                        !.posted = NotifierPosted(Clients)])
        /\ UNCHANGED <<caches, lifeVars, dispatched, classVars, hostEvent, runs>>

\* caches.match(event.request) of the notifier's .catch resolves.
NotifierFallback ==
    \E h \in Handling :
        /\ NoneFinished
        /\ hostEvent = NoEvent
        /\ h.npc = "match"
        /\ events' = Replace(h,
              [h EXCEPT !.npc = "done",
                        !.result = Responded(CachesMatch(caches, h.req))])
        /\ UNCHANGED <<caches, lifeVars, dispatched, classVars, hostEvent, runs>>

(***************************************************************************)
(* Message, sync, push and notificationclick listeners (sw.js 127-185)      *)
(*                                                                         *)
(* Each listener body is synchronous and touches no request context and no *)
(* store, so its run is placed where no fetch event is being handled, and   *)
(* nothing else happens until the event's handling is over.                 *)
(***************************************************************************)
\* event.data of a message or push event that carries none
NoData == [nodata |-> TRUE]

\* what a page can post to the worker
MessageData ==
    { NoData,
      [type |-> "SKIP_WAITING"],
      [type |-> "PING"],
      [text |-> "hello"] }

\* Mutant: no message makes the worker call skipWaiting.
SkipWaitingRequested_Never(data) == FALSE

\* event.data && event.data.type === 'SKIP_WAITING'
SkipWaitingRequested(data) ==
    /\ data # NoData
    /\ "type" \in DOMAIN data
    /\ data.type = "SKIP_WAITING"

\* A message event reaches the newest worker and its listener runs:
\* self.skipWaiting() sets the skip-waiting flag.
MessageListener ==
    /\ NoneFinished
    /\ hostEvent = NoEvent
    /\ events = EmptyBag
    /\ lifecycle # "UNINSTALLED"
    /\ \E data \in MessageData :
          /\ hostEvent' = [kind |-> "message", data |-> data]
          /\ skipWaitingFlag' = IF SkipWaitingRequested(data) THEN TRUE
                                ELSE skipWaitingFlag
    /\ UNCHANGED <<installs, installError, caches, lifecycle, activeWorker,
                   ipc, apc, delStatus, claimCalled, events, dispatched,
                   classVars, runs>>

SyncTags == {"background-sync", "other-sync"}

\* A sync event: console.log for the tag 'background-sync', nothing else.
SyncListener ==
    /\ NoneFinished
    /\ hostEvent = NoEvent
    /\ events = EmptyBag
    /\ lifecycle = "ACTIVE"
    /\ \E tag \in SyncTags :
          hostEvent' = [kind |-> "sync", tag |-> tag,
                        logged |-> (tag = "background-sync")]
    /\ UNCHANGED <<caches, lifeVars, events, dispatched, classVars, runs>>

\* what a push message can carry
PushData == { NoData, [text |-> "hello"] }

NoNotification == [title |-> "none"]

\* if (event.data) ... showNotification('One Day Maid', options)
PushNotification(data) ==
    IF data # NoData
    THEN [title |-> "One Day Maid", body |-> data.text]
    ELSE NoNotification

\* A push event: a notification is shown when the event carries data.
PushListener ==
    /\ NoneFinished
    /\ hostEvent = NoEvent
    /\ events = EmptyBag
    /\ lifecycle = "ACTIVE"
    /\ \E data \in PushData :
          hostEvent' = [kind |-> "push", data |-> data,
                        shown |-> PushNotification(data)]
    /\ UNCHANGED <<caches, lifeVars, events, dispatched, classVars, runs>>

\* the actions of the notification's buttons, and a click on its body
ClickActions == {"explore", "close", ""}

\* if (event.action === 'explore') ... clients.openWindow('/')
ClickOpens(action) == IF action = "explore" THEN <<"/">> ELSE << >>

\* A notificationclick event: the notification is closed, and the
\* application is opened for the action 'explore'.
NotificationClickListener ==
    /\ NoneFinished
    /\ hostEvent = NoEvent
    /\ events = EmptyBag
    /\ lifecycle = "ACTIVE"
    /\ \E action \in ClickActions :
          hostEvent' = [kind |-> "notificationclick", action |-> action,
                        closed |-> TRUE, opened |-> ClickOpens(action)]
    /\ UNCHANGED <<caches, lifeVars, events, dispatched, classVars, runs>>

\* The handling of the message, sync, push or notificationclick event is
\* over (the promise given to event.waitUntil, if any, has settled).
HostEventDone ==
    /\ hostEvent # NoEvent
    /\ hostEvent' = NoEvent
    /\ UNCHANGED <<caches, lifeVars, events, dispatched, classVars, runs>>

\* The request context is discarded once its handling is over.
Retire ==
    \E h \in Handling :
        /\ Finished(h)
        /\ events' = events (-) SetToBag({h})
        /\ UNCHANGED <<caches, lifeVars, dispatched, classVars, hostEvent, runs>>

(***************************************************************************)
(* Specification of the worker                                             *)
(***************************************************************************)
Next ==
    \/ Retire
    \/ HostInstall
    \/ InstallOpenSettle
    \/ InstallAddAllSettle
    \/ InstallSkipWaitingSettle
    \/ HostInstallSettled
    \/ HostRelease
    \/ HostActivate
    \/ ActivateKeysSettle
    \/ ActivateDeleteSettle
    \/ ActivateClaimSettle
    \/ HostActivated
    \/ FetchDispatch
    \/ NetworkFirstSettle
    \/ NetworkFirstFallback
    \/ CacheFirstMatch
    \/ CacheFirstFetched
    \/ CacheFirstOpened
    \/ CacheFirstPut
    \/ NotifierSettle
    \/ NotifierMatchAll
    \/ NotifierFallback
    \/ MessageListener
    \/ SyncListener
    \/ PushListener
    \/ NotificationClickListener
    \/ HostEventDone


Spec == Init /\ [][Next]_vars

(***************************************************************************)
(* Specification of the lifecycle alone: the install and activate listeners *)
(* and the message listener, with no fetch event dispatched. The host runs  *)
(* what it has queued: a worker that may be activated is activated, a       *)
(* started caches.delete settles and a message event's handling ends.       *)
(***************************************************************************)
NextLifecycle ==
    \/ HostInstall
    \/ InstallOpenSettle
    \/ InstallAddAllSettle
    \/ InstallSkipWaitingSettle
    \/ HostInstallSettled
    \/ HostRelease
    \/ HostActivate
    \/ ActivateKeysSettle
    \/ ActivateDeleteSettle
    \/ ActivateClaimSettle
    \/ HostActivated
    \/ MessageListener
    \/ HostEventDone

Fairness ==
    /\ SF_vars(HostActivate)
    /\ SF_vars(ActivateDeleteSettle)
    /\ WF_vars(HostEventDone)

SpecLifecycle == Init /\ [][NextLifecycle]_vars /\ Fairness

(***************************************************************************)
(* Specification of the classifier alone: shouldNotCache applied to every   *)
(* pathname of at most MaxPathLen atoms.                                    *)
(***************************************************************************)
PathAtoms == {"/", "index.html", "script.js", "styles.css", "x"}

RECURSIVE SeqsUpTo(_, _)
SeqsUpTo(S, n) ==
    IF n = 0 THEN { << >> }
    ELSE LET shorter == SeqsUpTo(S, n - 1)
         IN shorter \cup {Append(p, a) : p \in shorter, a \in S}

Paths == SeqsUpTo(PathAtoms, MaxPathLen)

InitClassifier ==
    /\ caches = << >>
    /\ lifecycle = "UNINSTALLED"
    /\ activeWorker = FALSE
    /\ skipWaitingFlag = FALSE
    /\ installs = 0
    /\ ipc = "idle"
    /\ installError = "none"
    /\ apc = "idle"
    /\ delStatus = << >>
    /\ claimCalled = FALSE
    /\ events = EmptyBag
    /\ dispatched = 0
    /\ hostEvent = NoEvent
    /\ runs = << >>
    /\ cpath \in Paths
    /\ cresult = None

Classify ==
    /\ cresult = None
    /\ cresult' = [value |-> shouldNotCache(cpath)]
    /\ UNCHANGED <<caches, lifeVars, events, dispatched, hostEvent, runs, cpath>>

NextClassifier == Classify

SpecClassifier == InitClassifier /\ [][NextClassifier]_vars

(***************************************************************************)
(* Specification of repeated activation: the activate listener (sw.js       *)
(* 40-58) runs up to MaxRuns times in a row, with no install in between, on *)
(* every set of stores an install can leave behind.                         *)
(***************************************************************************)
ActivationNames ==
    << "old-cache-v0", STATIC_CACHE_NAME, "maid-cache-v0", CACHE_NAME >>

\* A store as earlier runs of the application left it: the static store as
\* a successful install fills it, the generic store holding the copy that a
\* cache-first miss of /manifest.json wrote, and a store of an earlier
\* version.
LeftStore(name) ==
    IF name = STATIC_CACHE_NAME
    THEN InstallAddAll(CachesOpen(<< >>, STATIC_CACHE_NAME), Resp200("v1"))[1]
    ELSE IF name = CACHE_NAME
    THEN [name |-> CACHE_NAME,
          entries |-> (Resolve(<<"/", "manifest.json">>) :> Resp200("v1"))]
    ELSE OldStore(name)

\* the stores of names, in that order, whose name is in present
RECURSIVE StoresOf(_, _)
StoresOf(names, present) ==
    IF names = << >> THEN << >>
    ELSE (IF Head(names) \in present THEN << LeftStore(Head(names)) >>
          ELSE << >>)
         \o StoresOf(Tail(names), present)

InitActivation ==
    /\ caches \in {StoresOf(ActivationNames, present) :
                       present \in SUBSET Range(ActivationNames)}
    /\ lifecycle = "INSTALLED"
    /\ activeWorker = FALSE
    /\ skipWaitingFlag \in BOOLEAN
    /\ installs = 1
    /\ ipc = "idle"
    /\ installError = "none"
    /\ apc = "idle"
    /\ delStatus = << >>
    /\ claimCalled = FALSE
    /\ events = EmptyBag
    /\ dispatched = 0
    /\ hostEvent = NoEvent
    /\ runs = << >>
    /\ cpath = << >>
    /\ cresult = None

\* The activate event is dispatched once more, after the run before it and
\* all the deletions it started have settled; the store names that run left
\* are noted.
ActivateAgain ==
    /\ lifecycle = "ACTIVE"
    /\ apc = "idle"
    /\ DOMAIN delStatus = {}
    /\ Len(runs) + 1 < MaxRuns
    /\ runs' = Append(runs, [names |-> CacheNames(caches)])
    /\ lifecycle' = "ACTIVATING"
    /\ apc' = "keys"
    /\ delStatus' = << >>
    /\ claimCalled' = FALSE
    /\ UNCHANGED <<installs, installError, caches, activeWorker,
                   skipWaitingFlag, ipc, events, dispatched, classVars,
                   hostEvent>>

NextActivation ==
    \/ HostActivate
    \/ ActivateKeysSettle
    \/ ActivateDeleteSettle
    \/ ActivateClaimSettle
    \/ HostActivated
    \/ ActivateAgain

SpecActivation == InitActivation /\ [][NextActivation]_vars

(***************************************************************************)
(* Specification of concurrent requests: the active worker, installed with *)
(* all static files, handles MaxRacers fetch events for one and the same    *)
(* resource that no store holds, dispatched before any of them has made a  *)
(* step.                                                                    *)
(***************************************************************************)
\* same-origin GET requests the router serves cache-first and that the
\* install does not store
RaceRequests ==
    { r \in Requests :
        /\ RouterStart(r) = "match"
        /\ r.url \notin {Resolve(STATIC_FILES[i]) : i \in DOMAIN STATIC_FILES} }

\* CacheStorage after a successful install, before and after the generic
\* store was first opened
InstalledCaches ==
    LET static == InstallAddAll(CachesOpen(<< >>, STATIC_CACHE_NAME),
                                Resp200("v1"))
    IN { static, CachesOpen(static, CACHE_NAME) }

InitRace ==
    /\ caches \in InstalledCaches
    /\ lifecycle = "ACTIVE"
    /\ activeWorker = TRUE
    /\ skipWaitingFlag = TRUE
    /\ installs = 1
    /\ ipc = "idle"
    /\ installError = "none"
    /\ apc = "idle"
    /\ delStatus = << >>
    /\ claimCalled = TRUE
    /\ \E req \in RaceRequests : events = (NewEvent(req) :> MaxRacers)
    /\ dispatched = MaxRacers
    /\ hostEvent = NoEvent
    /\ runs = << >>
    /\ cpath = << >>
    /\ cresult = None

NextRace ==
    \/ CacheFirstMatch
    \/ CacheFirstFetched
    \/ CacheFirstOpened
    \/ CacheFirstPut
    \/ Retire

SpecRace == InitRace /\ [][NextRace]_vars

(***************************************************************************)
(* Specification of the worker in the middle of its life: this version is   *)
(* already active and controls the pages, and CacheStorage holds what its   *)
(* earlier install, activation and fetch events left, a stale store among   *)
(* it. Fetch events come before, during and after the install and the       *)
(* activation of the next version of the worker.                            *)
(***************************************************************************)
SequenceCaches ==
    { StoresOf(ActivationNames, present) :
        present \in { {STATIC_CACHE_NAME, "maid-cache-v0"},
                      {STATIC_CACHE_NAME, "maid-cache-v0", CACHE_NAME},
                      {"old-cache-v0", STATIC_CACHE_NAME, CACHE_NAME} } }

InitSequence ==
    /\ caches \in SequenceCaches
    /\ lifecycle = "ACTIVE"
    /\ activeWorker = TRUE
    /\ skipWaitingFlag = TRUE
    /\ installs = 0
    /\ ipc = "idle"
    /\ installError = "none"
    /\ apc = "idle"
    /\ delStatus = << >>
    /\ claimCalled = FALSE
    /\ events = EmptyBag
    /\ dispatched = 0
    /\ hostEvent = NoEvent
    /\ runs = << >>
    /\ cpath = << >>
    /\ cresult = None

SpecSequence == InitSequence /\ [][Next]_vars

(***************************************************************************)
(* Vocabulary of the properties                                            *)
(***************************************************************************)
GenericStoreName == "one-day-maid-v1"
StaticStoreName == "one-day-maid-static-v1"
RootUrl == <<"https://maid.example", "/">>
StaticUrls ==
    { <<"https://maid.example", "/">>,
      <<"https://maid.example", "/", "index.html">>,
      <<"https://maid.example", "/", "styles.css">>,
      <<"https://maid.example", "/", "script.js">>,
      <<"https://maid.example", "/", "manifest.json">> }
NoCachePaths ==
    { <<"/", "index.html">>, <<"/", "script.js">>, <<"/", "styles.css">> }

SameOriginGet(h) ==
    h.req.method = "GET" /\ h.req.url[1] = "https://maid.example"
AlwaysFresh(h) == shouldNotCache(UrlPathname(h.req.url))
CachePreferred(h) == ~shouldNotCache(UrlPathname(h.req.url))

\* the router / the notifier has started a network fetch for the event
RouterFetched(h) == h.rpc \in {"fetch", "missfetch"} \/ h.rnet # None
NotifierFetched(h) == h.npc # "skip"

\* this step is a step of the handling of h, which it turns into h2
StepOf(h, h2) == h # h2 /\ events' = Replace(h, h2)

\* the entries some store holds for url
Cached(cs, url) ==
    {cs[i].entries[url] : i \in {j \in 1..Len(cs) : url \in DOMAIN cs[j].entries}}

\* the store called name holds resp under url
Holds(cs, name, url, resp) ==
    \E i \in 1..Len(cs) : /\ cs[i].name = name
                           /\ url \in DOMAIN cs[i].entries
                           /\ cs[i].entries[url] = resp

(***************************************************************************)
(* C1                                                                      *)
(***************************************************************************)
\* C1: a same-origin GET request classified CACHE_PREFERRED whose cache
\* lookup finds an entry gets that entry, and no network fetch at all is
\* started while it is handled, by the router or by the notifier (the root
\* path included).
C1_NoFetchAtAll ==
    \A h \in Handling :
        (SameOriginGet(h) /\ CachePreferred(h) /\ IsResponse(h.rhit))
        => /\ h.result = h.rhit
           /\ ~RouterFetched(h)
           /\ ~NotifierFetched(h)

\* Witness: the root path, stored at install, was served from the cache with
\* no fetch of any kind.
C1_Witness ==
    \E h \in Handling :
        /\ SameOriginGet(h) /\ h.req.url = RootUrl
        /\ IsResponse(h.rhit) /\ h.result = h.rhit
        /\ h.rpc = "done" /\ h.npc = "skip" /\ h.rnet = None

(***************************************************************************)
(* C2                                                                      *)
(***************************************************************************)
\* C2: a request that is not a GET, or that goes to another origin, is passed
\* through untouched: no listener responds to it, no fetch is started for it
\* and no store is read for it, whatever its URL.
C2_PassThrough ==
    \A h \in Handling :
        (h.req.method # "GET" \/ h.req.url[1] # "https://maid.example")
        => /\ h.responder = "none"
           /\ ~RouterFetched(h)
           /\ ~NotifierFetched(h)
           /\ h.result = None

(***************************************************************************)
(* C3                                                                      *)
(***************************************************************************)
\* C3: no step of the handling of a same-origin GET request classified
\* ALWAYS_FRESH changes the contents of any store, and once its network fetch
\* has succeeded the page has exactly that fresh response.
C3_FreshNotStored ==
    [][\A h \in Handling : \A h2 \in BagToSet(events') :
          (StepOf(h, h2) /\ SameOriginGet(h) /\ AlwaysFresh(h))
          => /\ caches' = caches
             /\ IsResponse(h2.rnet) => h2.result = h2.rnet]_vars

\* Witness: a fresh response was returned for an ALWAYS_FRESH request.
C3_Witness ==
    \E h \in Handling :
        /\ SameOriginGet(h) /\ AlwaysFresh(h)
        /\ IsResponse(h.rnet) /\ h.result = h.rnet /\ h.rpc = "done"

(***************************************************************************)
(* C4                                                                      *)
(***************************************************************************)
\* C4: when the network fetch of a same-origin GET request classified
\* ALWAYS_FRESH has failed, the cache lookup that follows gives the page an
\* entry cached for that URL if some store holds one, and a failed response
\* if none does.
C4_FallbackOrFailure ==
    [][\A h \in Handling : \A h2 \in BagToSet(events') :
          (/\ StepOf(h, h2) /\ SameOriginGet(h) /\ AlwaysFresh(h)
           /\ h.rnet = Failed /\ h.rpc = "fallback" /\ h2.rpc = "done")
          => IF Cached(caches, h.req.url) = {}
             THEN h2.result = Failed
             ELSE h2.result \in Cached(caches, h.req.url)]_vars

\* Witness: the network failed and a cached entry was served instead.
C4_Witness ==
    \E h \in Handling :
        /\ SameOriginGet(h) /\ AlwaysFresh(h)
        /\ h.rnet = Failed /\ h.rpc = "done" /\ IsResponse(h.result)

(***************************************************************************)
(* C5                                                                      *)
(***************************************************************************)
\* C5: on a miss of a same-origin GET request classified CACHE_PREFERRED the
\* page gets the network response; a 200 'basic' response starts a write, and
\* when that write succeeds the generic store holds the response under the
\* request's URL; any other response starts no write, and no step of the
\* handling other than a successful write changes the contents of a store.
C5_MissStoresCopy ==
    [][\A h \in Handling : \A h2 \in BagToSet(events') :
          (StepOf(h, h2) /\ SameOriginGet(h) /\ CachePreferred(h))
          => /\ (h.rpc = "missfetch" /\ IsResponse(h2.rnet))
                => /\ h2.result = h2.rnet
                   /\ IF h2.rnet.status = 200 /\ h2.rnet.type = "basic"
                      THEN h2.rpc = "open"
                      ELSE h2.rpc = "done" /\ h2.write = "none"
             /\ (h.write # "stored" /\ h2.write = "stored")
                => /\ h.rnet.status = 200 /\ h.rnet.type = "basic"
                   /\ Holds(caches', GenericStoreName, h.req.url, h.rnet)
             /\ ~(h.write # "stored" /\ h2.write = "stored")
                => \A i \in 1..Len(caches) :
                      /\ i <= Len(caches')
                      /\ caches'[i] = caches[i]]_vars

\* Witness: the copy of a fetched icon was written to the generic store.
C5_Witness ==
    \E h \in Handling :
        /\ SameOriginGet(h) /\ CachePreferred(h)
        /\ h.rhit = Undefined /\ h.write = "stored"
        /\ h.result = h.rnet
        /\ Holds(caches, GenericStoreName, h.req.url, h.rnet)

(***************************************************************************)
(* C6                                                                      *)
(***************************************************************************)
\* C6: an install attempt whose fetch-and-store of the static files failed
\* never makes the worker installed (waiting) and is never activated.
C6_FailedInstallNotInstalled ==
    installError = "addAll" => lifecycle \notin {"INSTALLED", "ACTIVATING"}

(***************************************************************************)
(* C7                                                                      *)
(***************************************************************************)
\* the static store exists and holds the five static files and nothing else
StaticStorePopulated ==
    \E i \in 1..Len(caches) : /\ caches[i].name = StaticStoreName
                               /\ DOMAIN caches[i].entries = StaticUrls

\* C7: whenever install has requested force-activation (skipWaiting), the
\* static store holds exactly the five static files; an install that failed
\* has not requested it.
C7_SkipWaitingAfterPopulation ==
    /\ ipc = "skipWaiting" => StaticStorePopulated /\ skipWaitingFlag
    /\ (ipc = "fulfilled" /\ installError = "none")
          => StaticStorePopulated /\ skipWaitingFlag
    /\ installError # "none" => ipc # "skipWaiting"

\* Witness: all five files were stored and skipWaiting has been requested.
C7_Witness ==
    /\ ipc = "skipWaiting"
    /\ skipWaitingFlag
    /\ StaticStorePopulated

(***************************************************************************)
(* C8                                                                      *)
(***************************************************************************)
CurrentNames == {GenericStoreName, StaticStoreName}

\* C8: for every set of store names present when the activation starts: a
\* deletion is started for exactly the names present that are not one of the
\* two current names; no step of the activation removes or changes a current
\* store; and once every deletion has succeeded no store other than the two
\* current ones remains.
C8_PruneExactlyStale ==
    [][(delStatus' # delStatus \/ apc' # apc)
       => /\ \A i \in 1..Len(caches) :
               caches[i].name \in CurrentNames
               => \E j \in 1..Len(caches') : caches'[j] = caches[i]
          /\ \A n \in DOMAIN delStatus' : n \notin CurrentNames
          /\ apc = "keys"
               => DOMAIN delStatus' = CacheNames(caches) \ CurrentNames
          /\ (apc' = "claim" /\ apc # "claim")
               => CacheNames(caches') = CacheNames(caches) \cap CurrentNames]_vars

\* Witness: the activation found 'one-day-maid-v1', 'one-day-maid-static-v1'
\* and 'old-cache-v0'; only 'old-cache-v0' was deleted, and both current
\* stores still hold what they held.
C8_Witness ==
    /\ apc = "claim"
    /\ runs = << >>
    /\ DOMAIN delStatus = {"old-cache-v0"}
    /\ delStatus["old-cache-v0"] = "fulfilled"
    /\ CacheNames(caches) = CurrentNames
    /\ StaticStorePopulated
    /\ Holds(caches, GenericStoreName,
             <<"https://maid.example", "/", "manifest.json">>,
             [status |-> 200, type |-> "basic", body |-> "v1"])

(***************************************************************************)
(* C9                                                                      *)
(***************************************************************************)
\* C9: an activation ends with clients.claim() called, also when a deletion
\* of a stale store failed.
C9_ClaimDespiteFailedDelete ==
    lifecycle = "ACTIVE" => claimCalled

(***************************************************************************)
(* C10                                                                     *)
(***************************************************************************)
\* C10 as stated: shouldNotCache is true exactly for the members of the
\* No-Cache Path Set.
C10_MembersOnly ==
    cresult # None => (cresult.value <=> cpath \in NoCachePaths)

\* C10 amended: shouldNotCache is true exactly for the paths that are a
\* member of the No-Cache Path Set or end with one (some prefix followed by a
\* member), and false for every other path, the empty path included.
C10_MemberOrSuffix ==
    cresult # None =>
        (cresult.value <=>
            \E f \in NoCachePaths : \E k \in 0..Len(cpath) :
                cpath = SubSeq(cpath, 1, k) \o f)

\* Witness: a path that is no member of the set but ends with one was
\* classified ALWAYS_FRESH.
C10_Witness ==
    /\ cresult # None
    /\ cresult.value
    /\ cpath \notin NoCachePaths

(***************************************************************************)
(* C11                                                                     *)
(***************************************************************************)
\* C11: while a same-origin GET request for the root document is handled,
\* the notifier makes its own network fetch next to the router's handling,
\* and the 'UPDATE_AVAILABLE' message has been posted to every client once
\* that fetch has returned a response and the clients are known, and to no
\* client when it is pending or failed; the router is the responder.
C11_FetchDecidesBroadcast ==
    \A h \in Handling :
        (SameOriginGet(h) /\ h.req.url = RootUrl)
        => /\ NotifierFetched(h)
           /\ h.nfetch # "none"
           /\ h.posted = IF h.nfetch = "fulfilled" /\ h.npc = "done"
                         THEN {"page-1", "page-2"} ELSE {}
           /\ h.responder = "router"

(***************************************************************************)
(* C12                                                                     *)
(***************************************************************************)
\* the URLs of the application's root document: the root URL, and the root
\* path /index.html on the application's origin
RootDocumentUrls ==
    { <<"https://maid.example", "/">>,
      <<"https://maid.example", "/", "index.html">> }

\* C12: for a request to any URL other than the application's root document
\* the notifier starts no network fetch and posts no 'UPDATE_AVAILABLE'
\* message.
C12_RootDocumentOnly ==
    \A h \in Handling :
        h.req.url \notin RootDocumentUrls
        => /\ ~NotifierFetched(h)
           /\ h.nfetch = "none"
           /\ h.posted = {}

(***************************************************************************)
(* C13                                                                     *)
(***************************************************************************)
\* C13 as stated: the router's handling of a same-origin GET request ends in
\* a failed request exactly when the request is ALWAYS_FRESH, the network
\* fetch failed and no store holds an entry for it; in every other case the
\* page has a response.
C13_FailsOnlyAlwaysFresh ==
    \A h \in Handling :
        (SameOriginGet(h) /\ h.rpc = "done")
        => IF AlwaysFresh(h) /\ h.rnet = Failed /\ h.rhit = Undefined
           THEN h.result = Failed
           ELSE IsResponse(h.result)

\* C13 amended: the router's handling of a same-origin GET request ends in a
\* failed request exactly when its network fetch failed and its cache lookup
\* found no entry, whichever of the two came first (ALWAYS_FRESH: fetch, then
\* lookup; CACHE_PREFERRED: lookup, then fetch); in every other case the page
\* has a response.
C13_FailsWhenNothingToServe ==
    \A h \in Handling :
        (SameOriginGet(h) /\ h.rpc = "done")
        => IF h.rnet = Failed /\ h.rhit = Undefined
           THEN h.result = Failed
           ELSE IsResponse(h.result)

\* Witness: a CACHE_PREFERRED request missed the cache, its fetch failed, and
\* the page got a failed request.
C13_Witness ==
    \E h \in Handling :
        /\ SameOriginGet(h) /\ CachePreferred(h)
        /\ h.rpc = "done"
        /\ h.rhit = Undefined /\ h.rnet = Failed
        /\ h.result = Failed

(***************************************************************************)
(* C14                                                                     *)
(***************************************************************************)
\* the message listener has just run for the message event hostEvent'
MessageStep == hostEvent = NoEvent /\ hostEvent'.kind = "message"

\* C14: the message listener changes no store and not the lifecycle state
\* itself; for a message whose data has type 'SKIP_WAITING' it sets the
\* skip-waiting flag, and a worker that is installed (waiting) when it does
\* is then activated by the host although an active worker still controls
\* pages; for a message with no data or any other data the flag is left as it
\* was. An installed worker whose flag is not set is activated only when no
\* active worker is left.
C14_SkipWaitingMessage ==
    /\ [][MessageStep
           => /\ lifecycle' = lifecycle
              /\ caches' = caches
              /\ activeWorker' = activeWorker
              /\ IF hostEvent'.data = [type |-> "SKIP_WAITING"]
                 THEN skipWaitingFlag'
                 ELSE skipWaitingFlag' = skipWaitingFlag]_vars
    /\ [][(lifecycle = "INSTALLED" /\ lifecycle' # "INSTALLED")
           => /\ lifecycle' = "ACTIVATING"
              /\ skipWaitingFlag \/ ~activeWorker]_vars
    /\ (/\ hostEvent = [kind |-> "message", data |-> [type |-> "SKIP_WAITING"]]
        /\ lifecycle = "INSTALLED")
          ~> (lifecycle = "ACTIVATING")

\* Witness: an install that never called skipWaiting itself is being
\* activated, after a 'SKIP_WAITING' message, while an active worker still
\* controls pages.
C14_Witness ==
    /\ lifecycle = "ACTIVATING"
    /\ activeWorker
    /\ skipWaitingFlag
    /\ installError # "none"

(***************************************************************************)
(* C15                                                                     *)
(***************************************************************************)
\* an activation run and every deletion it started have settled
RunSettled ==
    lifecycle = "ACTIVE" /\ apc = "idle" /\ DOMAIN delStatus = {}

\* C15: a run of the activation that follows another, with no install in
\* between, leaves exactly the store names the run before it left.
C15_SecondRunSameNames ==
    (RunSettled /\ runs # << >>)
    => CacheNames(caches) = runs[Len(runs)].names

(***************************************************************************)
(* C16                                                                     *)
(***************************************************************************)
\* C16: clients.claim() is called only during an activation and only when
\* every deletion the activation started has been fulfilled; while it counts
\* as called no deletion is pending; and the lifecycle changes only from
\* UNINSTALLED or ACTIVE to INSTALLING, from INSTALLING to INSTALLED, from
\* INSTALLED to ACTIVATING and from ACTIVATING to ACTIVE.
C16_ClaimAfterDeletions ==
    [][/\ (claimCalled' /\ ~claimCalled)
           => /\ lifecycle = "ACTIVATING"
              /\ \A n \in DOMAIN delStatus' : delStatus'[n] = "fulfilled"
       /\ claimCalled'
           => \A n \in DOMAIN delStatus' : delStatus'[n] # "pending"
       /\ lifecycle' # lifecycle
           => \/ lifecycle \in {"UNINSTALLED", "ACTIVE"}
                    /\ lifecycle' = "INSTALLING"
              \/ lifecycle = "INSTALLING" /\ lifecycle' = "INSTALLED"
              \/ lifecycle = "INSTALLED" /\ lifecycle' = "ACTIVATING"
              \/ lifecycle = "ACTIVATING" /\ lifecycle' = "ACTIVE"]_vars

\* Witness: an activation that had stale stores to delete has called
\* clients.claim() after all the deletions, and its chain is fulfilled.
C16_Witness ==
    /\ lifecycle = "ACTIVATING"
    /\ apc = "fulfilled"
    /\ claimCalled
    /\ DOMAIN delStatus # {}
    /\ \A n \in DOMAIN delStatus : delStatus[n] = "fulfilled"

(***************************************************************************)
(* C17                                                                     *)
(***************************************************************************)
\* the router has started a cache lookup for the event
RouterLookedUp(h) == h.rpc \in {"match", "fallback"} \/ h.rhit # None

\* C17: the router's two retrieval attempts for a same-origin GET request
\* are strictly sequential. For an ALWAYS_FRESH request its cache lookup is
\* started only after its network fetch has failed, and a fetch that
\* succeeded is followed by no lookup; for a CACHE_PREFERRED request its
\* network fetch is started only after its cache lookup has returned no
\* entry, and a lookup that found an entry is followed by no fetch.
C17_RouterSequential ==
    \A h \in Handling :
        SameOriginGet(h)
        => IF AlwaysFresh(h)
           THEN /\ RouterLookedUp(h) => h.rnet = Failed
                /\ IsResponse(h.rnet) => h.rhit = None /\ h.rpc = "done"
           ELSE /\ RouterFetched(h) => h.rhit = Undefined
                /\ IsResponse(h.rhit) => h.rnet = None /\ h.rpc = "done"

\* Witness: the fetch of an ALWAYS_FRESH request has failed and only now the
\* router's cache lookup is under way.
C17_Witness ==
    \E h \in Handling :
        /\ SameOriginGet(h) /\ AlwaysFresh(h)
        /\ h.rnet = Failed /\ h.rpc = "fallback" /\ h.rhit = None

(***************************************************************************)
(* C18                                                                     *)
(***************************************************************************)
\* the stores called name that hold an entry for url
StoresHolding(cs, name, url) ==
    {i \in 1..Len(cs) : cs[i].name = name /\ url \in DOMAIN cs[i].entries}

\* C18: of the concurrent requests for one uncached resource, each one that
\* has fetched has the outcome of its own fetch as its result, and the one
\* whose write has just finished finds its own response as the one and only
\* entry of the generic store for the request, whatever the others wrote
\* before it; no other store holds an entry for the request.
C18_LastWriteWins ==
    \A h \in Handling :
        /\ h.rnet # None => h.result = h.rnet
        /\ h.write = "stored"
             => /\ Cardinality(StoresHolding(caches, GenericStoreName,
                                             h.req.url)) = 1
                /\ Cached(caches, h.req.url) = {h.rnet}

\* Witness: both requests missed and fetched; one has just stored its
\* response, the other one holds a different response of its own and its
\* write is under way.
C18_Witness ==
    \E h \in Handling : \E g \in Handling :
        /\ h.rhit = Undefined /\ g.rhit = Undefined
        /\ IsResponse(h.rnet) /\ IsResponse(g.rnet) /\ h.rnet # g.rnet
        /\ h.result = h.rnet /\ g.result = g.rnet
        /\ h.write = "stored" /\ g.rpc = "put"
        /\ Cached(caches, h.req.url) = {h.rnet}

(***************************************************************************)
(* C19                                                                     *)
(***************************************************************************)
\* C19: on a miss of a same-origin GET request classified CACHE_PREFERRED, a
\* 200 'basic' network response is the page's result as soon as the fetch
\* has settled, before the write has made a step; no step of the write
\* changes that result; and a step in which the write fails (caches.open or
\* cache.put rejected) ends the handling and leaves every store as it was.
C19_WriteFailureNonFatal ==
    [][\A h \in Handling : \A h2 \in BagToSet(events') :
          (StepOf(h, h2) /\ SameOriginGet(h) /\ CachePreferred(h))
          => /\ (/\ h.rpc = "missfetch"
                 /\ IsResponse(h2.rnet)
                 /\ h2.rnet.status = 200 /\ h2.rnet.type = "basic")
                => /\ h2.result = h2.rnet
                   /\ h2.rpc = "open"
                   /\ h2.write = "none"
             /\ h.rpc \in {"open", "put"}
                => /\ IsResponse(h.result)
                   /\ h.result = h.rnet
                   /\ h2.result = h.result
             /\ (h.write = "none" /\ h2.write = "failed")
                => /\ h.rpc \in {"open", "put"}
                   /\ h2.rpc = "done"
                   /\ caches' = caches]_vars

\* Witness: the write of a fetched icon failed; the page has the fetched
\* response and no store holds an entry for the request.
C19_Witness ==
    \E h \in Handling :
        /\ SameOriginGet(h) /\ CachePreferred(h)
        /\ h.rhit = Undefined /\ h.write = "failed"
        /\ IsResponse(h.result) /\ h.result = h.rnet
        /\ Cached(caches, h.req.url) = {}

(***************************************************************************)
(* C20                                                                     *)
(***************************************************************************)
\* the store called name, as a set (empty when there is none)
StoreNamed(cs, name) == {cs[i] : i \in {j \in 1..Len(cs) : cs[j].name = name}}

\* C20: in every step, whatever events came before it: a store that
\* appears is one of the two current stores; the static store appears or
\* changes only in a step of the install listener; a step of the handling of
\* a fetch event changes no store but the generic one; a step of the
\* message, sync, push or notificationclick listener changes no store; and a
\* current store that exists is not deleted.
C20_WritesByName ==
    [][/\ CacheNames(caches') \ CacheNames(caches) \subseteq CurrentNames
       /\ StoreNamed(caches', StaticStoreName)
             # StoreNamed(caches, StaticStoreName)
           => lifecycle = "INSTALLING" /\ ipc \in {"open", "addAll"}
       /\ events' # events
           => \A i \in 1..Len(caches) :
                 caches[i].name # GenericStoreName
                 => i <= Len(caches') /\ caches'[i] = caches[i]
       /\ hostEvent' # hostEvent => caches' = caches
       /\ CacheNames(caches) \cap CurrentNames \subseteq CacheNames(caches')]_vars

\* Witness: a fetch event dispatched to the active worker wrote its copy to
\* the generic store; then the next version was installed, and its
\* activation has deleted the stale store while both current stores stayed;
\* a message event is being handled.
C20_Witness ==
    /\ hostEvent.kind = "message"
    /\ lifecycle = "ACTIVATING"
    /\ installs = 1
    /\ apc = "claim"
    /\ DOMAIN delStatus # {}
    /\ \A n \in DOMAIN delStatus : delStatus[n] = "fulfilled"
    /\ StaticStorePopulated
    /\ CacheNames(caches) = CurrentNames
    /\ \E c \in StoreNamed(caches, GenericStoreName) :
          <<"https://maid.example", "/", "icon-192.png">> \in DOMAIN c.entries

====
